---- MODULE Spec2Model ----
(***************************************************************************)
(* Binelek MCP server: the gateway client (BinelekGatewayClient), the five *)
(* tool groups' call-tool handlers, and main()'s startup and dispatch.     *)
(*                                                                         *)
(* Texts (messages, tool output, request paths) are sequences of string    *)
(* pieces, concatenated with \o, so that "starts with", "contains" and     *)
(* "is exactly" are questions about the pieces.                            *)
(***************************************************************************)
EXTENDS Integers, Sequences, FiniteSets, TLC

VARIABLES
    pc,           \* where main() is ("unit": no main, the classes are used directly)
    config,       \* the config the gateway client was constructed from
    client,       \* the gateway client: tenantId and the axios instance's defaults
    registered,   \* how many register*Tools calls main() has made
    allTools,     \* main()'s allTools array (descriptor names)
    callHandler,  \* the group whose handler the server holds for tools/call
    listHandler,  \* whether the server holds a tools/list handler
    calls,        \* per slot: the call suspended on its HTTP exchange, if any
    ret,          \* what a finished call hands back, until its caller has taken it
    stderr,       \* the lines the latest step wrote with console.error
    probes        \* how many times main() has called healthCheck

vars == <<pc, config, client, registered, allTools, callHandler, listHandler, calls, ret,
          stderr, probes>>

----------------------------------------------------------------------------
(* Values *)

\* Number of distinct identifiers (entity ids, pipeline ids, queries, ...)
\* a caller may pass.
MaxIds == 2

Ids == {"e" \o ToString(i) : i \in 1..MaxIds}

\* The JavaScript value undefined (a missing field, an unset variable).
Undefined == "<undefined>"

\* String conversion inside a template literal: `${v}`.
Str(v) == IF v = Undefined THEN "undefined" ELSE v

\* Response bodies the gateway may answer with (response.data after axios
\* has parsed the JSON): a plain object, a string, null, and the two shapes
\* of the validation answer. raw is the object's members (or the string's
\* characters); errors is the one element of the errors list, if any.
Bodies ==
    { [type |-> "object", raw |-> "\"id\": \"x\"", valid |-> "none", errors |-> "none"],
      [type |-> "string", raw |-> "hello", valid |-> "none", errors |-> "none"],
      [type |-> "null", raw |-> "null", valid |-> "none", errors |-> "none"],
      [type |-> "object", raw |-> "\"valid\": true", valid |-> "true", errors |-> "none"],
      [type |-> "object", raw |-> "\"valid\": false, \"errors\": [\"bad\"]",
       valid |-> "false", errors |-> "bad"] }

\* JSON.stringify(v, null, 2): a string is quoted, an object is braced.
Stringify(v) ==
    CASE v.type = "string" -> "\"" \o v.raw \o "\""
      [] v.type = "null"   -> "null"
      [] OTHER             -> "{" \o v.raw \o "}"

\* A text's pieces run together: the string itself.
RECURSIVE Join(_)
Join(text) == IF text = << >> THEN "" ELSE Head(text) \o Join(Tail(text))

\* A piece of the text is this string.
Contains(text, piece) == \E i \in DOMAIN text : text[i] = piece

\* HTTP statuses the gateway may answer with.
Statuses == {200, 400, 404, 499, 500, 503}

\* What can become of one HTTP exchange once the request is on the wire:
\* a response with a status and a body, or no response (refused, timeout).
HttpOutcomes ==
    { [type |-> "response", status |-> s, data |-> b] : s \in Statuses, b \in Bodies }
    \cup { [type |-> "noresponse"] }

----------------------------------------------------------------------------
(* Tool groups *)

OntologyTools ==
    << "binelek_get_entity", "binelek_query_entities", "binelek_create_entity",
       "binelek_update_entity", "binelek_delete_entity",
       "binelek_get_relationships", "binelek_create_relationship" >>

SearchTools ==
    << "binelek_semantic_search", "binelek_keyword_search", "binelek_hybrid_search" >>

AITools == << "binelek_ai_chat", "binelek_ai_predict", "binelek_ai_analyze_entity" >>

PipelineTools ==
    << "binelek_list_pipelines", "binelek_get_pipeline", "binelek_trigger_pipeline",
       "binelek_get_pipeline_runs" >>

AdminTools ==
    << "binelek_list_domains", "binelek_get_domain", "binelek_get_ontology_schema",
       "binelek_validate_yaml", "binelek_generate_code" >>

\* The order in which main() registers the groups.
GroupOrder == << "ontology", "search", "ai", "pipeline", "admin" >>

Groups == {GroupOrder[i] : i \in DOMAIN GroupOrder}

\* The descriptors (by name) a group declares, in declaration order.
ToolsOf(g) ==
    CASE g = "ontology" -> OntologyTools
      [] g = "search"   -> SearchTools
      [] g = "ai"       -> AITools
      [] g = "pipeline" -> PipelineTools
      [] g = "admin"    -> AdminTools

Range(s) == {s[i] : i \in DOMAIN s}

ToolNames == UNION {Range(ToolsOf(g)) : g \in Groups}

\* Names a caller may send: every declared tool and one no group declares.
Names == ToolNames \cup {"binelek_no_such_tool"}

\* The gateway client method a tool's case calls.
OpOf(name) ==
    CASE name = "binelek_get_entity"          -> "getEntity"
      [] name = "binelek_query_entities"      -> "queryEntities"
      [] name = "binelek_create_entity"       -> "createEntity"
      [] name = "binelek_update_entity"       -> "updateEntity"
      [] name = "binelek_delete_entity"       -> "deleteEntity"
      [] name = "binelek_get_relationships"   -> "getRelationships"
      [] name = "binelek_create_relationship" -> "createRelationship"
      [] name = "binelek_semantic_search"     -> "semanticSearch"
      [] name = "binelek_keyword_search"      -> "keywordSearch"
      [] name = "binelek_hybrid_search"       -> "hybridSearch"
      [] name = "binelek_ai_chat"             -> "chat"
      [] name = "binelek_ai_predict"          -> "predict"
      [] name = "binelek_ai_analyze_entity"   -> "analyzeEntity"
      [] name = "binelek_list_pipelines"      -> "listPipelines"
      [] name = "binelek_get_pipeline"        -> "getPipeline"
      [] name = "binelek_trigger_pipeline"    -> "triggerPipeline"
      [] name = "binelek_get_pipeline_runs"   -> "getPipelineRuns"
      [] name = "binelek_list_domains"        -> "listDomains"
      [] name = "binelek_get_domain"          -> "getDomainConfig"
      [] name = "binelek_get_ontology_schema" -> "getOntologySchema"
      [] name = "binelek_validate_yaml"       -> "validateYaml"
      [] name = "binelek_generate_code"       -> "generateCode"

Ops == {OpOf(n) : n \in ToolNames} \cup {"healthCheck"}

\* Arguments of a call: absent altogether, or a mapping whose first required
\* field (entityId, pipelineId, query, ...) is an identifier or is missing.
AbsentArgs == [present |-> FALSE, key |-> Undefined]

ArgsSpace == {AbsentArgs} \cup {[present |-> TRUE, key |-> k] : k \in Ids \cup {Undefined}}

----------------------------------------------------------------------------
(* Gateway client *)

\* config.timeout || 30000
DefaultTimeout == 30000

\* Configs a caller may hand to the constructor. A missing baseUrl, tenantId
\* or token is Undefined; a missing timeout is 0 (0 and undefined are both
\* falsy in `config.timeout || 30000`). Every tenantId is combined with every
\* token (the headers depend on both); a missing baseUrl and a given timeout
\* are combined with every tenantId.
ConfigSpace ==
    [ baseUrl  : {"http://localhost:8092"},
      tenantId : {Undefined, "core"},
      token    : {Undefined, "", "jwt"},
      timeout  : {0} ]
    \cup
    [ baseUrl  : {Undefined},
      tenantId : {Undefined, "core"},
      token    : {"jwt"},
      timeout  : {0, 5000} ]

\* JavaScript truthiness of an optional string.
Truthy(v) == v # Undefined /\ v # ""

\* Mutant of Constructor: config.timeout is passed on as it is, so a config
\* without one gives axios the timeout 0, which means no timeout.
ConstructorNoDefaultTimeout(cfg) ==
    [ tenantId |-> cfg.tenantId,
      baseURL  |-> cfg.baseUrl,
      headers  |-> IF Truthy(cfg.token)
                   THEN ("Authorization" :> ("Bearer " \o cfg.token))
                        @@ ("X-Tenant-Id" :> cfg.tenantId)
                        @@ ("Content-Type" :> "application/json")
                   ELSE ("X-Tenant-Id" :> cfg.tenantId)
                        @@ ("Content-Type" :> "application/json"),
      timeout  |-> cfg.timeout ]

\* Mutant of Constructor: the Authorization header is set whatever the token.
ConstructorAlwaysAuth(cfg) ==
    [ tenantId |-> cfg.tenantId,
      baseURL  |-> cfg.baseUrl,
      headers  |-> ("Authorization" :> ("Bearer " \o Str(cfg.token)))
                   @@ ("X-Tenant-Id" :> cfg.tenantId)
                   @@ ("Content-Type" :> "application/json"),
      timeout  |-> IF cfg.timeout # 0 THEN cfg.timeout ELSE DefaultTimeout ]

\* new BinelekGatewayClient(config): the tenant id is kept, the default
\* headers are built (Authorization only for a truthy token) and the axios
\* instance is created. Nothing is validated and nothing is thrown.
Constructor(cfg) ==
    LET base == ("X-Tenant-Id" :> cfg.tenantId)
                @@ ("Content-Type" :> "application/json")
        headers == IF Truthy(cfg.token)
                   THEN ("Authorization" :> ("Bearer " \o cfg.token)) @@ base
                   ELSE base
    IN  [ tenantId |-> cfg.tenantId,
          baseURL  |-> cfg.baseUrl,
          headers  |-> headers,
          timeout  |-> IF cfg.timeout # 0 THEN cfg.timeout ELSE DefaultTimeout ]

\* Mutant of ValidateStatus: axios' default, only 2xx resolves.
ValidateStatusDefault(status) == status >= 200 /\ status < 300

\* validateStatus: (status) => status < 500
ValidateStatus(status) == status < 500

\* Headers and body fields whose value is undefined are not put on the wire.
Defined(f) == [k \in {x \in DOMAIN f : f[x] # Undefined} |-> f[k]]

MethodOf(op) ==
    CASE op \in {"healthCheck", "getEntity", "getRelationships", "listPipelines",
                 "getPipeline", "getPipelineRuns", "listDomains", "getDomainConfig",
                 "getOntologySchema"} -> "GET"
      [] op = "updateEntity" -> "PUT"
      [] op = "deleteEntity" -> "DELETE"
      [] OTHER -> "POST"

PathOf(op, key) ==
    CASE op = "healthCheck"        -> << "/health" >>
      [] op = "getEntity"          -> << "/api/ontology/entities/", Str(key) >>
      [] op = "queryEntities"      -> << "/api/ontology/query" >>
      [] op = "createEntity"       -> << "/api/ontology/entities" >>
      [] op = "updateEntity"       -> << "/api/ontology/entities/", Str(key) >>
      [] op = "deleteEntity"       -> << "/api/ontology/entities/", Str(key) >>
      [] op = "getRelationships"   -> << "/api/ontology/entities/", Str(key), "/relationships" >>
      [] op = "createRelationship" -> << "/api/ontology/relationships" >>
      [] op = "semanticSearch"     -> << "/api/search/semantic" >>
      [] op = "keywordSearch"      -> << "/api/search/keyword" >>
      [] op = "hybridSearch"       -> << "/api/search/hybrid" >>
      [] op = "predict"            -> << "/api/ai/predict" >>
      [] op = "chat"               -> << "/api/ai/chat" >>
      [] op = "analyzeEntity"      -> << "/api/ai/analyze" >>
      [] op = "listPipelines"      -> << "/api/pipeline/pipelines" >>
      [] op = "getPipeline"        -> << "/api/pipeline/pipelines/", Str(key) >>
      [] op = "triggerPipeline"    -> << "/api/pipeline/pipelines/", Str(key), "/trigger" >>
      [] op = "getPipelineRuns"    -> << "/api/pipeline/pipelines/", Str(key), "/runs" >>
      [] op = "listDomains"        -> << "/api/domains" >>
      [] op = "getDomainConfig"    -> << "/api/domains/", Str(key) >>
      [] op = "getOntologySchema"  -> << "/api/domains/", Str(key), "/ontology" >>
      [] op = "validateYaml"       -> << "/api/regen/validate" >>
      [] op = "generateCode"       -> << "/api/regen/generate" >>

\* The request body's field that carries the operation's first parameter
\* ("" when the parameter is in the path or there is none).
BodyField(op) ==
    CASE op \in {"queryEntities", "semanticSearch", "keywordSearch", "hybridSearch"} -> "query"
      [] op = "createEntity"       -> "type"
      [] op = "createRelationship" -> "sourceId"
      [] op = "predict"            -> "modelType"
      [] op = "chat"               -> "message"
      [] op = "analyzeEntity"      -> "entityId"
      [] op \in {"validateYaml", "generateCode"} -> "yaml"
      [] OTHER -> ""

BodyOf(c, op, key) ==
    LET field == IF BodyField(op) = "" THEN << >> ELSE (BodyField(op) :> key)
    IN  Defined(IF op = "createEntity" THEN ("tenantId" :> c.tenantId) @@ field ELSE field)

\* Mutant of BuildRequest: the operation's parameter overrides the tenant
\* header for this one call.
BuildRequestTenantOverride(c, op, key) ==
    [ op      |-> op,
      method  |-> MethodOf(op),
      path    |-> PathOf(op, key),
      body    |-> BodyOf(c, op, key),
      headers |-> Defined(IF key # Undefined
                          THEN ("X-Tenant-Id" :> key) @@ c.headers
                          ELSE c.headers),
      timeout |-> c.timeout ]

\* The one request an operation hands to the axios instance: method and path
\* are fixed by the operation, headers and timeout are the instance's defaults.
BuildRequest(c, op, key) ==
    [ op      |-> op,
      method  |-> MethodOf(op),
      path    |-> PathOf(op, key),
      body    |-> BodyOf(c, op, key),
      headers |-> Defined(c.headers),
      timeout |-> c.timeout ]

\* How the axios promise settles. `setup` is a failure before anything was
\* sent; otherwise the exchange's outcome decides, through validateStatus.
\* A rejection carries axios' own error: .response when one was received,
\* .request when the request was sent.
AxiosSettle(outcome) ==
    CASE outcome.type = "setup" ->
           [ settled |-> "rejected",
             error |-> [request |-> FALSE, message |-> << "Invalid URL" >>] ]
      [] outcome.type = "noresponse" ->
           [ settled |-> "rejected",
             error |-> [request |-> TRUE, message |-> << "timeout exceeded" >>] ]
      [] outcome.type = "response" ->
           IF ValidateStatus(outcome.status)
           THEN [ settled |-> "resolved", status |-> outcome.status, data |-> outcome.data ]
           ELSE [ settled |-> "rejected",
                  error |-> [ request |-> TRUE,
                              message |-> << "Request failed with status code ",
                                             ToString(outcome.status) >>,
                              response |-> [status |-> outcome.status,
                                            data |-> outcome.data] ] ]

\* Mutant of InterceptorLog: the error interceptor logs nothing.
InterceptorLogSilent(outcome) == << >>

\* The response interceptor's error handler: what it writes with
\* console.error while an exchange with this outcome settles. It runs on a
\* rejection only, before the rejection reaches the operation's catch block;
\* a resolved response passes through the first handler, which logs nothing.
InterceptorLog(outcome) ==
    LET s == AxiosSettle(outcome)
    IN  IF s.settled = "resolved"
        THEN << >>
        ELSE IF "response" \in DOMAIN s.error
             THEN << << "API Error: ", ToString(s.error.response.status), " - ",
                        Stringify(s.error.response.data) >> >>
             ELSE IF s.error.request
                  THEN << << "API Error: No response received" >> >>
                  ELSE << << "API Error: " >> \o s.error.message >>

\* What a gateway client operation hands to its caller.
Value(v) == [state |-> "value", value |-> v]

Failure(kind, message) == [state |-> "failure", kind |-> kind, message |-> message]

\* throw new Error(message): an error with neither .response nor .request.
PlainError(message) == [request |-> FALSE, message |-> message]

\* Mutant of handleError: .request is tested before .response.
handleErrorRequestFirst(error) ==
    IF error.request
    THEN Failure("UnreachableError", << "No response from API Gateway. Is it running?" >>)
    ELSE IF "response" \in DOMAIN error
         THEN Failure("UpstreamError",
                      << "API Error (", ToString(error.response.status), "): ",
                         Stringify(error.response.data) >>)
         ELSE Failure("RequestError", << "Request failed: " >> \o error.message)

\* handleError(error): the three branches, in the code's order.
handleError(error) ==
    IF "response" \in DOMAIN error
    THEN Failure("UpstreamError",
                 << "API Error (", ToString(error.response.status), "): ",
                    Stringify(error.response.data) >>)
    ELSE IF error.request
         THEN Failure("UnreachableError", << "No response from API Gateway. Is it running?" >>)
         ELSE Failure("RequestError", << "Request failed: " >> \o error.message)

\* Mutant of OpSettle: getEntity does not look at the status.
OpSettleNoNotFound(op, key, outcome) ==
    LET s == AxiosSettle(outcome)
    IN  IF s.settled = "resolved" THEN Value(s.data) ELSE handleError(s.error)

\* Mutant of OpSettle: every operation inspects the status for 404, not
\* getEntity alone.
OpSettleAllNotFound(op, key, outcome) ==
    LET s == AxiosSettle(outcome)
    IN  IF s.settled = "resolved"
        THEN IF s.status = 404
             THEN handleError(PlainError(<< "Entity not found: ", Str(key) >>))
             ELSE Value(s.data)
        ELSE handleError(s.error)

\* The body of every operation, once its axios promise has settled:
\*   try { response = await ...; [getEntity: 404 -> throw]; return response.data }
\*   catch (error) { this.handleError(error) }
OpSettle(op, key, outcome) ==
    LET s == AxiosSettle(outcome)
    IN  IF s.settled = "resolved"
        THEN IF op = "getEntity" /\ s.status = 404
             THEN handleError(PlainError(<< "Entity not found: ", Str(key) >>))
             ELSE Value(s.data)
        ELSE handleError(s.error)

----------------------------------------------------------------------------
(* Tool group handlers *)

\* A tool result: one text block, and isError only where the code sets it.
TextBlock(text) == [type |-> "text", text |-> text]

Result(text) == [content |-> << TextBlock(text) >>]

ErrorResult(text) == [content |-> << TextBlock(text) >>, isError |-> TRUE]

\* How a handler invocation ends: it returns a result, or an error leaves it.
Return(result) == [type |-> "return", result |-> result]

Raise(message) == [type |-> "raise", message |-> message]

\* Mutant of UnknownTool: the text does not name the tool.
UnknownToolUnnamed(name) == ErrorResult(<< "Unknown tool" >>)

\* default: `Unknown tool: ${name}`, isError: true
UnknownTool(name) == ErrorResult(<< "Unknown tool: ", name >>)

\* Mutant of Caught: the message is returned without the "Error: " prefix.
CaughtUnprefixed(message) == ErrorResult(message)

\* catch (error): `Error: ${error.message}`, isError: true
Caught(message) == ErrorResult(<< "Error: " >> \o message)

\* The first field a tool's case takes from args ("" when it reads none).
FirstField(name) ==
    CASE name \in {"binelek_get_entity", "binelek_update_entity", "binelek_delete_entity",
                   "binelek_get_relationships", "binelek_ai_analyze_entity"} -> "entityId"
      [] name = "binelek_query_entities"      -> "cypherQuery"
      [] name = "binelek_create_entity"       -> "entityType"
      [] name = "binelek_create_relationship" -> "sourceId"
      [] name \in {"binelek_semantic_search", "binelek_keyword_search",
                   "binelek_hybrid_search"}   -> "query"
      [] name = "binelek_ai_chat"             -> "message"
      [] name = "binelek_ai_predict"          -> "modelType"
      [] name \in {"binelek_get_pipeline", "binelek_trigger_pipeline",
                   "binelek_get_pipeline_runs"} -> "pipelineId"
      [] name \in {"binelek_get_domain", "binelek_get_ontology_schema"} -> "domainName"
      [] name \in {"binelek_validate_yaml", "binelek_generate_code"} -> "yamlContent"
      [] OTHER -> ""

\* Reading a field of args when the request carried no arguments: the
\* engine's TypeError, thrown inside the handler's try block.
ArgsTypeError(name) ==
    IF name = "binelek_hybrid_search"
    THEN << "Cannot read properties of undefined (reading '", FirstField(name), "')" >>
    ELSE << "Cannot destructure property '", FirstField(name),
            "' of 'args' as it is undefined." >>

\* Mutant of Confirmation: no case puts a line before the serialized result.
ConfirmationNone(name) == << >>

\* The confirmation line a case puts before the serialized result.
Confirmation(name) ==
    CASE name = "binelek_create_entity"       -> << "Entity created successfully:\n" >>
      [] name = "binelek_update_entity"       -> << "Entity updated successfully:\n" >>
      [] name = "binelek_create_relationship" -> << "Relationship created successfully:\n" >>
      [] name = "binelek_trigger_pipeline"    -> << "Pipeline triggered successfully:\n" >>
      [] name = "binelek_generate_code"       -> << "Code generated successfully:\n" >>
      [] OTHER -> << >>

\* Mutant of SuccessText: the delete case serializes the result like the
\* other cases.
SuccessTextDeleteEchoes(name, args, result) ==
    CASE name = "binelek_ai_chat" ->
           IF result.type = "string" THEN << result.raw >> ELSE << Stringify(result) >>
      [] name = "binelek_delete_entity" ->
           << "Entity ", Str(args.key), " deleted successfully:\n", Stringify(result) >>
      [] name = "binelek_validate_yaml" ->
           IF result.valid = "true"
           THEN << "\\u2713 YAML is valid\n", Stringify(result) >>
           ELSE << "\\u2717 YAML validation failed:\n",
                   IF result.errors = "none" THEN "undefined"
                   ELSE "[\"" \o result.errors \o "\"]" >>
      [] OTHER -> Confirmation(name) \o << Stringify(result) >>

\* Mutant of SuccessText: a failed validation prints the whole body, like a
\* successful one.
SuccessTextValidateWholeBody(name, args, result) ==
    CASE name = "binelek_ai_chat" ->
           IF result.type = "string" THEN << result.raw >> ELSE << Stringify(result) >>
      [] name = "binelek_delete_entity" ->
           << "Entity ", Str(args.key), " deleted successfully" >>
      [] name = "binelek_validate_yaml" ->
           IF result.valid = "true"
           THEN << "\\u2713 YAML is valid\n", Stringify(result) >>
           ELSE << "\\u2717 YAML validation failed:\n", Stringify(result) >>
      [] OTHER -> Confirmation(name) \o << Stringify(result) >>

\* The text of a case's return statement, given what the gateway method
\* returned.
SuccessText(name, args, result) ==
    CASE name = "binelek_ai_chat" ->
           IF result.type = "string" THEN << result.raw >> ELSE << Stringify(result) >>
      [] name = "binelek_delete_entity" ->
           << "Entity ", Str(args.key), " deleted successfully" >>
      [] name = "binelek_validate_yaml" ->
           IF result.valid = "true"
           THEN << "\\u2713 YAML is valid\n", Stringify(result) >>
           ELSE << "\\u2717 YAML validation failed:\n",
                   IF result.errors = "none" THEN "undefined"
                   ELSE "[\"" \o result.errors \o "\"]" >>
      [] OTHER -> Confirmation(name) \o << Stringify(result) >>

\* Mutant of HandlerBegin: the handler checks the required field itself and
\* answers without calling the gateway when it is missing.
HandlerBeginValidates(g, name, args) ==
    IF name \notin Range(ToolsOf(g))
    THEN [invoked |-> FALSE, out |-> Return(UnknownTool(name))]
    ELSE IF FirstField(name) # "" /\ (~args.present \/ args.key = Undefined)
         THEN [invoked |-> FALSE,
               out |-> Return(Caught(<< "Missing required field: ", FirstField(name) >>))]
         ELSE [invoked |-> TRUE, op |-> OpOf(name),
               key |-> IF FirstField(name) # "" THEN args.key ELSE Undefined]

\* A group's call-tool handler up to its await:
\*   switch (name): a name the group does not declare takes the default case;
\*   a case that reads args throws when args is undefined (caught below);
\*   otherwise the case calls its gateway method with the field's value.
HandlerBegin(g, name, args) ==
    IF name \notin Range(ToolsOf(g))
    THEN [invoked |-> FALSE, out |-> Return(UnknownTool(name))]
    ELSE IF FirstField(name) # "" /\ ~args.present
         THEN [invoked |-> FALSE, out |-> Return(Caught(ArgsTypeError(name)))]
         ELSE [invoked |-> TRUE, op |-> OpOf(name),
               key |-> IF FirstField(name) # "" THEN args.key ELSE Undefined]

\* Mutant of HandlerEnd: no catch block, the gateway method's failure leaves
\* the handler.
HandlerEndUncaught(g, name, args, gw) ==
    IF gw.state = "value"
    THEN Return(Result(SuccessText(name, args, gw.value)))
    ELSE Raise(gw.message)

\* The handler after its await: the case's return statement when the gateway
\* method returned, the catch block when it threw. Reading result.valid of a
\* null result throws inside the try block, so the catch block answers.
HandlerEnd(g, name, args, gw) ==
    IF gw.state = "value"
    THEN IF name = "binelek_validate_yaml" /\ gw.value.type = "null"
         THEN Return(Caught(<< "Cannot read properties of null (reading 'valid')" >>))
         ELSE Return(Result(SuccessText(name, args, gw.value)))
    ELSE Return(Caught(gw.message))

----------------------------------------------------------------------------
(* State *)

\* Calls that may be suspended at the same time.
Slots == {"c1", "c2"}

Idle == [kind |-> "idle"]

NoClient == [none |-> TRUE]

NoConfig == [none |-> TRUE]

HasClient == "headers" \in DOMAIN client

NoRet == [kind |-> "none"]

NoReq == [sent |-> FALSE]

NoHttp == [type |-> "none"]

NoGw == [state |-> "none"]

Sent(req) == [sent |-> TRUE] @@ req

\* What a finished call-tool invocation hands back, with the call's own
\* inputs and what happened underneath it.
\* opCalls counts the gateway client methods the handler called, sends the
\* HTTP requests sent on the call's behalf.
ToolRet(via, g, name, args, invoked, op, key, req, http, gw, out, opCalls, sends) ==
    [ kind |-> "tool", via |-> via, group |-> g, name |-> name, args |-> args,
      invoked |-> invoked, op |-> op, key |-> key,
      req |-> req, http |-> http, gw |-> gw, out |-> out,
      opCalls |-> opCalls, sends |-> sends ]

\* What a finished direct call of a gateway client method hands back.
OpRet(op, key, req, http, gw) ==
    [ kind |-> "op", op |-> op, key |-> key, req |-> req, http |-> http, gw |-> gw ]

\* A call-tool request enters group g's handler. The handler either answers
\* at once (default case, or the catch block after a TypeError), or calls its
\* gateway method, whose request either fails before it is sent (the method
\* throws at once and the handler answers) or is sent (the call suspends).
StartTool(c, via, g, name, args) ==
    LET b == HandlerBegin(g, name, args)
    IN  IF ~b.invoked
        THEN /\ calls' = calls
             /\ ret' = ToolRet(via, g, name, args, FALSE, "", Undefined,
                               NoReq, NoHttp, NoGw, b.out, 0, 0)
             /\ stderr' = << >>
        ELSE \E sent \in BOOLEAN :
               IF sent
               THEN /\ calls' = [calls EXCEPT ![c] =
                          [ kind |-> "tool", via |-> via, group |-> g, name |-> name,
                            args |-> args, op |-> b.op, key |-> b.key,
                            req |-> Sent(BuildRequest(client, b.op, b.key)),
                            opCalls |-> 1, sends |-> 1 ]]
                    /\ ret' = NoRet
                    /\ stderr' = << >>
               ELSE LET gw == OpSettle(b.op, b.key, [type |-> "setup"])
                    IN  /\ calls' = calls
                        /\ ret' = ToolRet(via, g, name, args, TRUE, b.op, b.key, NoReq,
                                          [type |-> "setup"], gw,
                                          HandlerEnd(g, name, args, gw), 1, 0)
                        /\ stderr' = InterceptorLog([type |-> "setup"])

\* A gateway client method is called directly.
StartOp(c, op, key) ==
    \E sent \in BOOLEAN :
      IF sent
      THEN /\ calls' = [calls EXCEPT ![c] =
                 [ kind |-> "op", op |-> op, key |-> key,
                   req |-> Sent(BuildRequest(client, op, key)) ]]
           /\ ret' = NoRet
           /\ stderr' = << >>
      ELSE /\ calls' = calls
           /\ ret' = OpRet(op, key, NoReq, [type |-> "setup"],
                           OpSettle(op, key, [type |-> "setup"]))
           /\ stderr' = InterceptorLog([type |-> "setup"])

\* Mutant of Finish: the handler's arguments live in one place shared by the
\* calls in flight, so a resuming call reads the arguments of the other
\* suspended call when there is one.
FinishSharedArgs(c, outcome) ==
    LET w  == calls[c]
        o  == IF \E d \in Slots \ {c} : calls[d] # Idle /\ calls[d].kind = "tool"
              THEN calls[CHOOSE d \in Slots \ {c} : calls[d] # Idle /\ calls[d].kind = "tool"]
              ELSE w
        gw == OpSettle(w.op, w.key, outcome)
    IN  /\ calls' = [calls EXCEPT ![c] = Idle]
        /\ ret' = IF w.kind = "tool"
                  THEN ToolRet(w.via, w.group, w.name, w.args, TRUE, w.op, w.key,
                               w.req, outcome, gw,
                               HandlerEnd(w.group, w.name, o.args, gw),
                               w.opCalls, w.sends)
                  ELSE OpRet(w.op, w.key, w.req, outcome, gw)
        /\ stderr' = InterceptorLog(outcome)

\* Mutant of Finish: a request that gets no response is sent once more.
FinishRetry(c, outcome) ==
    LET w  == calls[c]
        gw == OpSettle(w.op, w.key, outcome)
    IN  IF w.kind = "tool" /\ outcome.type = "noresponse" /\ w.sends < 2
        THEN /\ calls' = [calls EXCEPT ![c].sends = w.sends + 1]
             /\ ret' = NoRet
             /\ stderr' = InterceptorLog(outcome)
        ELSE /\ calls' = [calls EXCEPT ![c] = Idle]
             /\ ret' = IF w.kind = "tool"
                       THEN ToolRet(w.via, w.group, w.name, w.args, TRUE, w.op, w.key,
                                    w.req, outcome, gw,
                                    HandlerEnd(w.group, w.name, w.args, gw),
                                    w.opCalls, w.sends)
                       ELSE OpRet(w.op, w.key, w.req, outcome, gw)
             /\ stderr' = InterceptorLog(outcome)

\* The suspended call in slot c resumes with its exchange's outcome.
Finish(c, outcome) ==
    LET w  == calls[c]
        gw == OpSettle(w.op, w.key, outcome)
    IN  /\ calls' = [calls EXCEPT ![c] = Idle]
        /\ ret' = IF w.kind = "tool"
                  THEN ToolRet(w.via, w.group, w.name, w.args, TRUE, w.op, w.key,
                               w.req, outcome, gw,
                               HandlerEnd(w.group, w.name, w.args, gw),
                               w.opCalls, w.sends)
                  ELSE OpRet(w.op, w.key, w.req, outcome, gw)
        /\ stderr' = InterceptorLog(outcome)

----------------------------------------------------------------------------
(* main() and the running server *)

\* process.env as main() reads it: each variable unset or set.
EnvSpace ==
    [ BINELEK_GATEWAY_URL : {Undefined, "http://gw:9000"},
      BINELEK_JWT_TOKEN   : {Undefined, "jwt"},
      BINELEK_TENANT_ID   : {Undefined, "acme"} ]

\* The config main() builds: `||` defaults for the URL and the tenant.
MainConfig(env) ==
    [ baseUrl  |-> IF Truthy(env.BINELEK_GATEWAY_URL) THEN env.BINELEK_GATEWAY_URL
                   ELSE "http://localhost:8092",
      tenantId |-> IF Truthy(env.BINELEK_TENANT_ID) THEN env.BINELEK_TENANT_ID
                   ELSE "core",
      token    |-> env.BINELEK_JWT_TOKEN,
      timeout  |-> 0 ]

Init ==
    /\ pc = "start"
    /\ config = NoConfig
    /\ client = NoClient
    /\ registered = 0
    /\ allTools = << >>
    /\ callHandler = "none"
    /\ listHandler = FALSE
    /\ calls = [c \in Slots |-> Idle]
    /\ ret = NoRet
    /\ stderr = << >>
    /\ probes = 0

\* The four lines main() logs first.
Banner(env) ==
    LET cfg == MainConfig(env)
    IN  << << "Starting Binelek MCP Server..." >>,
           << "Gateway URL: ", cfg.baseUrl >>,
           << "Tenant ID: ", cfg.tenantId >>,
           << "Authentication: ",
              IF Truthy(cfg.token) THEN "Token provided"
              ELSE "No token (will use public endpoints only)" >> >>

\* What main() logs after the probe: one line on success; on failure the
\* caught error's message and the notice that startup goes on.
ProbeLog(gw) ==
    IF gw.state = "value"
    THEN << << "\\u2713 Successfully connected to Binelek API Gateway" >> >>
    ELSE << << "\\u2717 Failed to connect to API Gateway: " >> \o gw.message,
            << "Server will start but tools may not work correctly" >> >>

\* main() logs its start and runs
\* const gateway = new BinelekGatewayClient({...})
MainConstruct(env) ==
    /\ pc = "start"
    /\ config' = MainConfig(env)
    /\ client' = Constructor(MainConfig(env))
    /\ pc' = "probe"
    /\ ret' = NoRet
    /\ stderr' = Banner(env)
    /\ UNCHANGED <<probes, registered, allTools, callHandler, listHandler, calls>>

\* await gateway.healthCheck(), up to the await. A request that cannot be
\* sent makes healthCheck throw at once; main() catches, logs and goes on.
ProbeBegin ==
    /\ pc = "probe"
    /\ StartOp("c1", "healthCheck", Undefined)
    /\ pc' = IF calls'["c1"] = Idle THEN "probed" ELSE "probing"
    /\ probes' = probes + 1
    /\ UNCHANGED <<config, client, registered, allTools, callHandler, listHandler>>

\* The probe's exchange ends and healthCheck returns or throws.
ProbeEnd(outcome) ==
    /\ pc = "probing"
    /\ Finish("c1", outcome)
    /\ pc' = "probed"
    /\ UNCHANGED <<probes, config, client, registered, allTools, callHandler, listHandler>>

\* Mutant of ProbeDone: no try/catch around the probe, so a failure leaves
\* main() and main().catch ends the process.
ProbeDoneFatal ==
    /\ pc = "probed"
    /\ ret.kind = "op"
    /\ ret' = NoRet
    /\ stderr' = IF ret.gw.state = "value" THEN ProbeLog(ret.gw)
                 ELSE << << "Fatal error:" >> \o ret.gw.message >>
    /\ pc' = IF ret.gw.state = "value" THEN "register" ELSE "exit"
    /\ UNCHANGED <<probes, config, client, registered, allTools, callHandler, listHandler, calls>>

\* main() takes the probe's result: it logs the success, or catches the
\* failure and logs it, and in both cases goes on to create the server.
ProbeDone ==
    /\ pc = "probed"
    /\ ret.kind = "op"
    /\ ret' = NoRet
    /\ stderr' = ProbeLog(ret.gw)
    /\ pc' = "register"
    /\ UNCHANGED <<probes, config, client, registered, allTools, callHandler, listHandler, calls>>

\* Mutant of RegisterGroup: the group's descriptors replace allTools, as its
\* handler replaces the call-tool handler.
RegisterGroupReplacesList ==
    /\ pc = "register"
    /\ registered < Len(GroupOrder)
    /\ LET g == GroupOrder[registered + 1]
       IN  /\ allTools' = ToolsOf(g)
           /\ callHandler' = g
    /\ registered' = registered + 1
    /\ ret' = NoRet
    /\ stderr' = << >>
    /\ UNCHANGED <<probes, pc, config, client, listHandler, calls>>

\* register<Group>Tools(server, gateway, allTools): the group's descriptors
\* are pushed onto allTools and its handler is set for tools/call. The
\* protocol server keeps one handler per request method, so setting a handler
\* replaces the one set before.
RegisterGroup ==
    /\ pc = "register"
    /\ registered < Len(GroupOrder)
    /\ LET g == GroupOrder[registered + 1]
       IN  /\ allTools' = allTools \o ToolsOf(g)
           /\ callHandler' = g
    /\ registered' = registered + 1
    /\ ret' = NoRet
    /\ stderr' = << >>
    /\ UNCHANGED <<probes, pc, config, client, listHandler, calls>>

\* server.setRequestHandler(ListToolsRequestSchema, ...)
InstallListHandler ==
    /\ pc = "register"
    /\ registered = Len(GroupOrder)
    /\ listHandler' = TRUE
    /\ pc' = "connect"
    /\ ret' = NoRet
    /\ stderr' = << << "Registered ", ToString(Len(allTools)), " tools" >> >>
    /\ UNCHANGED <<probes, config, client, registered, allTools, callHandler, calls>>

\* await server.connect(transport)
Connect ==
    /\ pc = "connect"
    /\ pc' = "running"
    /\ ret' = NoRet
    /\ stderr' = << << "\\u2713 Binelek MCP server running on stdio" >> >>
    /\ UNCHANGED <<probes, config, client, registered, allTools, callHandler, listHandler, calls>>

\* A tools/list request: the handler returns allTools.
ListTools ==
    /\ pc = "running"
    /\ listHandler
    /\ ret = NoRet
    /\ ret' = [kind |-> "list", tools |-> allTools]
    /\ stderr' = << >>
    /\ UNCHANGED <<probes, pc, config, client, registered, allTools, callHandler, listHandler, calls>>

\* A tools/call request: the server runs the handler it holds for the method.
CallTool(c, name, args) ==
    /\ pc = "running"
    /\ callHandler # "none"
    /\ calls[c] = Idle
    /\ ret = NoRet
    /\ StartTool(c, "server", callHandler, name, args)
    /\ UNCHANGED <<probes, pc, config, client, registered, allTools, callHandler, listHandler>>

\* The gateway answers (or fails to answer) a suspended call.
Respond(c, outcome) ==
    /\ pc \in {"running", "unit"}
    /\ calls[c] # Idle
    /\ ret = NoRet
    /\ Finish(c, outcome)
    /\ UNCHANGED <<probes, pc, config, client, registered, allTools, callHandler, listHandler>>

\* The caller takes what a finished call handed back: the server writes the
\* response to the transport (it does so in the continuation of the handler's
\* promise, before the event loop takes the next message); a direct caller's
\* await resumes.
Deliver ==
    /\ pc \in {"running", "unit"}
    /\ ret # NoRet
    /\ ret' = NoRet
    /\ stderr' = << >>
    /\ UNCHANGED <<probes, pc, config, client, registered, allTools, callHandler, listHandler, calls>>

Next ==
    \/ \E env \in EnvSpace : MainConstruct(env)
    \/ ProbeBegin
    \/ \E outcome \in HttpOutcomes : ProbeEnd(outcome)
    \/ ProbeDone
    \/ RegisterGroup
    \/ InstallListHandler
    \/ Connect
    \/ ListTools
    \/ \E c \in Slots, name \in Names, args \in ArgsSpace : CallTool(c, name, args)
    \/ \E c \in Slots, outcome \in HttpOutcomes : Respond(c, outcome)
    \/ Deliver

Spec == Init /\ [][Next]_vars

\* main() alone, from its first statement to the end of server.connect. Each
\* statement of main() runs once the one before it is done, and the probe's
\* exchange ends (axios gives up after the timeout at the latest), so a step
\* of main() that can be taken is taken.
NextStartup ==
    \/ \E env \in EnvSpace : MainConstruct(env)
    \/ ProbeBegin
    \/ \E outcome \in HttpOutcomes : ProbeEnd(outcome)
    \/ ProbeDone
    \/ RegisterGroup
    \/ InstallListHandler
    \/ Connect

SpecStartup == Init /\ [][NextStartup]_vars /\ WF_vars(NextStartup)

----------------------------------------------------------------------------
(* The classes used directly: any config, any group's handler, any method *)

InitUnit ==
    /\ pc = "unit"
    /\ config = NoConfig
    /\ client = NoClient
    /\ registered = 0
    /\ allTools = << >>
    /\ callHandler = "none"
    /\ listHandler = FALSE
    /\ calls = [c \in Slots |-> Idle]
    /\ ret = NoRet
    /\ stderr = << >>
    /\ probes = 0

\* new BinelekGatewayClient(config), for any config.
NewClient(cfg) ==
    /\ pc = "unit"
    /\ ~HasClient
    /\ config' = cfg
    /\ client' = Constructor(cfg)
    /\ ret' = NoRet
    /\ stderr' = << >>
    /\ UNCHANGED <<probes, pc, registered, allTools, callHandler, listHandler, calls>>

\* Group g's call-tool handler is invoked with any name and arguments.
CallGroup(g, name, args) ==
    /\ pc = "unit"
    /\ HasClient
    /\ \A c \in Slots : calls[c] = Idle
    /\ ret = NoRet
    /\ StartTool("c1", "group", g, name, args)
    /\ UNCHANGED <<probes, pc, config, client, registered, allTools, callHandler, listHandler>>

\* A gateway client method is called with any first parameter.
InvokeOp(op, key) ==
    /\ pc = "unit"
    /\ HasClient
    /\ \A c \in Slots : calls[c] = Idle
    /\ ret = NoRet
    /\ StartOp("c1", op, key)
    /\ UNCHANGED <<probes, pc, config, client, registered, allTools, callHandler, listHandler>>

NextUnit ==
    \/ \E cfg \in ConfigSpace : NewClient(cfg)
    \/ \E g \in Groups, name \in Names, args \in ArgsSpace : CallGroup(g, name, args)
    \/ \E op \in Ops, key \in Ids \cup {Undefined} : InvokeOp(op, key)
    \/ \E c \in Slots, outcome \in HttpOutcomes : Respond(c, outcome)
    \/ Deliver

SpecUnit == InitUnit /\ [][NextUnit]_vars

----------------------------------------------------------------------------
(* Handlers invoked while another invocation is suspended *)

\* The config of the one client the handlers share.
PairConfigs ==
    { [baseUrl |-> "http://localhost:8092", tenantId |-> "core", token |-> "jwt",
       timeout |-> 0] }

\* Arguments that name an identifier, so that two calls can be told apart.
PairArgs == {a \in ArgsSpace : a.present /\ a.key \in Ids}

\* Outcomes of an exchange: a status of each class, any body, or no response.
PairOutcomes ==
    {o \in HttpOutcomes : o.type = "response" => o.status \in {200, 404, 500}}

\* Group g's call-tool handler is invoked while another invocation may be
\* suspended at its await: each invocation is a call of the async arrow
\* function, with its own request, name and args. It takes the first free
\* slot.
CallGroupConcurrent(c, g, name, args) ==
    /\ pc = "unit"
    /\ HasClient
    /\ calls[c] = Idle
    /\ \A d \in Slots : calls[d] = Idle => (c = "c1" \/ d # "c1")
    /\ ret = NoRet
    /\ StartTool(c, "group", g, name, args)
    /\ UNCHANGED <<probes, pc, config, client, registered, allTools, callHandler, listHandler>>

NextPair ==
    \/ \E cfg \in PairConfigs : NewClient(cfg)
    \/ \E c \in Slots, g \in Groups, name \in Names, args \in PairArgs :
          CallGroupConcurrent(c, g, name, args)
    \/ \E c \in Slots, outcome \in PairOutcomes : Respond(c, outcome)
    \/ Deliver

SpecPair == InitUnit /\ [][NextPair]_vars

----------------------------------------------------------------------------
(* Suspended calls and the request timeout *)

\* Configs without and with a timeout of their own.
LiveConfigs ==
    [ baseUrl  : {"http://localhost:8092"},
      tenantId : {"core"},
      token    : {"jwt"},
      timeout  : {0, 5000} ]

\* Arguments with the first field given; which identifier it is makes no
\* difference to how long a call waits.
LiveArgs == {a \in ArgsSpace : a.present /\ a.key = "e1"}

\* The timeout axios was created with fires for the request of the call
\* suspended in slot c: axios aborts the request and rejects with an error
\* that has .request and no .response. A timeout of 0 is no timeout.
Timeout(c) ==
    /\ pc = "unit"
    /\ calls[c] # Idle
    /\ calls[c].req.timeout > 0
    /\ ret = NoRet
    /\ Finish(c, [type |-> "noresponse"])
    /\ UNCHANGED <<probes, pc, config, client, registered, allTools, callHandler, listHandler>>

NextLive ==
    \/ \E cfg \in LiveConfigs : NewClient(cfg)
    \/ \E c \in Slots, g \in Groups, name \in Names, args \in LiveArgs :
          CallGroupConcurrent(c, g, name, args)
    \/ \E c \in Slots, outcome \in PairOutcomes : Respond(c, outcome)
    \/ \E c \in Slots : Timeout(c)
    \/ Deliver

\* A finished call's result is taken by its caller, and a timer that is
\* running fires whatever else the process does in between; whether the
\* gateway ever responds is left open.
SpecLive ==
    /\ InitUnit
    /\ [][NextLive]_vars
    /\ WF_vars(Deliver)
    /\ \A c \in Slots : SF_vars(Timeout(c))

----------------------------------------------------------------------------
(* Claims *)

\* The text of a returned result's first block.
TextOf(r) == r.out.result.content[1].text

\* C1: after startup, a call-tool request naming any tool that list-tools
\* returns is handled by the group that declares the tool, is not answered
\* "Unknown tool", and (given arguments) reaches that tool's gateway method.
\* The code sets five handlers for the one tools/call method, so only the
\* last group's handler (admin) ever runs.
C1_ListedToolReachesItsGroup ==
    ( /\ pc = "running"
      /\ ret.kind = "tool"
      /\ ret.via = "server"
      /\ Contains(allTools, ret.name) )
    => /\ Contains(ToolsOf(ret.group), ret.name)
       /\ ret.out.type = "return"
       /\ TextOf(ret)[1] # "Unknown tool: "
       /\ ret.args.present => (ret.invoked /\ ret.op = OpOf(ret.name))

\* C2 as stated: every tool call returns a result whose isError is explicitly
\* true or explicitly false. The success returns carry no isError field.
C2_IsErrorAlwaysExplicit ==
    ret.kind = "tool"
    => /\ ret.out.type = "return"
       /\ "isError" \in DOMAIN ret.out.result
       /\ ret.out.result.isError \in BOOLEAN

\* The call did not produce its tool's success text: the name was not the
\* group's, reading the arguments threw, the gateway method failed, or the
\* case itself threw on the value.
CallFailed(r) ==
    \/ ~r.invoked
    \/ r.gw.state # "value"
    \/ (r.name = "binelek_validate_yaml" /\ r.gw.value.type = "null")

\* C2 (amended): every tool call (any name, any arguments, absent ones too,
\* any gateway outcome) returns a result object and never raises; isError is
\* explicitly true when the call failed and is absent when it succeeded.
C2_ReturnsResultErrorFlagTrueOrAbsent ==
    ret.kind = "tool"
    => /\ ret.out.type = "return"
       /\ Len(ret.out.result.content) = 1
       /\ IF CallFailed(ret)
          THEN "isError" \in DOMAIN ret.out.result /\ ret.out.result.isError = TRUE
          ELSE "isError" \notin DOMAIN ret.out.result

C2_Witness ==
    /\ ret.kind = "tool"
    /\ ret.invoked
    /\ ret.gw.state = "value"
    /\ ret.out.type = "return"
    /\ "isError" \notin DOMAIN ret.out.result

\* C3: whenever the gateway client method a tool call invoked fails, the
\* handler returns exactly one text block whose text is "Error: " followed by
\* the failure's message, with isError true, and nothing is raised.
C3_GatewayFailureBecomesErrorResult ==
    (ret.kind = "tool" /\ ret.invoked /\ ret.gw.state = "failure")
    => /\ ret.out.type = "return"
       /\ Len(ret.out.result.content) = 1
       /\ ret.out.result.content[1].type = "text"
       /\ Join(TextOf(ret)) = "Error: " \o Join(ret.gw.message)
       /\ "isError" \in DOMAIN ret.out.result
       /\ ret.out.result.isError = TRUE

C3_Witness ==
    /\ ret.kind = "tool"
    /\ ret.invoked
    /\ ret.gw.state = "failure"
    /\ ret.gw.kind = "UpstreamError"
    /\ ret.out.type = "return"

\* C4: for every group's handler and every name the group does not declare,
\* no gateway method is called (no request is built, nothing suspends) and
\* the result has isError true and a text that contains the name.
C4_UnknownNameNoGatewayCall ==
    /\ \A c \in Slots :
         calls[c].kind = "tool" => Contains(ToolsOf(calls[c].group), calls[c].name)
    /\ (ret.kind = "tool" /\ ~Contains(ToolsOf(ret.group), ret.name))
       => /\ ~ret.invoked
          /\ ret.req = NoReq
          /\ ret.gw = NoGw
          /\ ret.out.type = "return"
          /\ "isError" \in DOMAIN ret.out.result
          /\ ret.out.result.isError = TRUE
          /\ Contains(TextOf(ret), ret.name)

\* A tool another group declares, sent to the admin group's handler.
C4_Witness ==
    /\ ret.kind = "tool"
    /\ ret.group = "admin"
    /\ ret.name = "binelek_get_entity"
    /\ ret.out.type = "return"
    /\ ret.out.result.isError = TRUE

\* A gateway client method ran to its end under this finished call.
OpRan(r) == r.kind = "op" \/ (r.kind = "tool" /\ r.invoked)

\* C5: when getEntity(id) receives HTTP 404 it fails; the failure's message
\* contains id and its kind is not UpstreamError (nor does its message read
\* like one); the 404 body is never returned as a value.
C5_GetEntity404IsNotFoundFailure ==
    ( /\ OpRan(ret)
      /\ ret.op = "getEntity"
      /\ ret.http.type = "response"
      /\ ret.http.status = 404 )
    => /\ ret.gw.state = "failure"
       /\ Contains(ret.gw.message, Str(ret.key))
       /\ ret.gw.kind # "UpstreamError"
       /\ ret.gw.message[1] # "API Error ("

C5_Witness ==
    /\ ret.kind = "op"
    /\ ret.op = "getEntity"
    /\ ret.key \in Ids
    /\ ret.http.type = "response"
    /\ ret.http.status = 404
    /\ ret.gw.state = "failure"

\* C6: a binelek_get_entity call for an id the gateway answers with 404
\* returns isError true and one text block that reads exactly
\* "Error: Entity not found: <id>". The code's text has "Request failed: "
\* between the prefix and "Entity not found".
C6_GetEntity404Text ==
    ( /\ ret.kind = "tool"
      /\ ret.group = "ontology"
      /\ ret.name = "binelek_get_entity"
      /\ ret.invoked
      /\ ret.key \in Ids
      /\ ret.http.type = "response"
      /\ ret.http.status = 404 )
    => /\ ret.out.type = "return"
       /\ Len(ret.out.result.content) = 1
       /\ "isError" \in DOMAIN ret.out.result
       /\ ret.out.result.isError = TRUE
       /\ Join(TextOf(ret)) = "Error: Entity not found: " \o Str(ret.key)

\* C7: for every gateway client operation, a response with status >= 500
\* makes the operation fail; a response with a status in [200,500) makes it
\* return the response body, except that 404 on getEntity makes it fail.
C7_StatusDecidesOutcome ==
    (OpRan(ret) /\ ret.http.type = "response")
    => IF ret.http.status >= 500
       THEN ret.gw.state = "failure"
       ELSE IF ret.op = "getEntity" /\ ret.http.status = 404
            THEN ret.gw.state = "failure"
            ELSE ret.http.status >= 200
                 /\ ret.gw.state = "value"
                 /\ ret.gw.value = ret.http.data

C7_Witness ==
    /\ ret.kind = "op"
    /\ ret.op = "deleteEntity"
    /\ ret.http.type = "response"
    /\ ret.http.status = 404
    /\ ret.gw.state = "value"
    /\ ret.gw.value = ret.http.data

\* What every operation hands back is a value or one of the three failure
\* kinds, never the HTTP library's own error.
NoNativeError(r) ==
    /\ r.gw.state \in {"value", "failure"}
    /\ r.gw.state = "failure"
       => r.gw.kind \in {"UpstreamError", "UnreachableError", "RequestError"}

IsUpstream(r) ==
    /\ r.gw.kind = "UpstreamError"
    /\ Contains(r.gw.message, ToString(r.http.status))
    /\ Contains(r.gw.message, Stringify(r.http.data))

SentRequests ==
    {calls[c].req : c \in {x \in Slots : calls[x] # Idle}}
    \cup (IF ret.kind \in {"tool", "op"} /\ ret.req # NoReq THEN {ret.req} ELSE {})

\* C9: constructing a client from a config without baseUrl or tenantId fails,
\* so no client exists for such a config and no request goes out without the
\* tenant header. The constructor validates nothing.
C9_ConstructionRejectsMissingFields ==
    /\ HasClient => (config.baseUrl # Undefined /\ config.tenantId # Undefined)
    /\ \A r \in SentRequests : "X-Tenant-Id" \in DOMAIN r.headers

\* The tenant a request names, in a header or a body: the value, or
\* Undefined when the request does not carry the field.
Carried(f, k) == IF k \in DOMAIN f THEN f[k] ELSE Undefined

C11_AuthorizationHeaderFollowsToken ==
    \A r \in SentRequests :
        IF config.token \in {Undefined, ""}
        THEN "Authorization" \notin DOMAIN r.headers
        ELSE /\ "Authorization" \in DOMAIN r.headers
             /\ r.headers["Authorization"] = "Bearer " \o config.token

C11_Witness ==
    /\ config # NoConfig
    /\ config.token = ""
    /\ ret.kind = "tool"
    /\ ret.req # NoReq
    /\ "Authorization" \notin DOMAIN ret.req.headers
    /\ "X-Tenant-Id" \in DOMAIN ret.req.headers

\* C12: when deleteEntity succeeds for id, binelek_delete_entity returns one
\* text block whose text is the fixed confirmation naming id; the text
\* contains none of the response body (neither serialized nor raw), whatever
\* the body was.
C12_DeleteConfirmsIdWithoutBody ==
    ( /\ ret.kind = "tool"
      /\ ret.name = "binelek_delete_entity"
      /\ ret.invoked
      /\ ret.gw.state = "value" )
    => /\ ret.out.type = "return"
       /\ Len(ret.out.result.content) = 1
       /\ ret.out.result.content[1].type = "text"
       /\ Contains(TextOf(ret), Str(ret.args.key))
       /\ Join(TextOf(ret)) = "Entity " \o Str(ret.args.key) \o " deleted successfully"
       /\ ~Contains(TextOf(ret), Stringify(ret.http.data))
       /\ ~Contains(TextOf(ret), ret.http.data.raw)

C12_Witness ==
    /\ ret.kind = "tool"
    /\ ret.name = "binelek_delete_entity"
    /\ ret.args.present
    /\ ret.args.key = "e1"
    /\ ret.gw.state = "value"
    /\ ret.http.data.type = "object"
    /\ Join(TextOf(ret)) = "Entity e1 deleted successfully"

\* C13: binelek_validate_yaml, when the gateway's body has valid = true,
\* returns a text that starts with the success marker and contains the whole
\* body serialized; when the body has valid = false with an errors list, the
\* text starts with the failure marker and contains the serialized errors
\* list and not the whole body.
C13_ValidateYamlFormatsByValid ==
    ( /\ ret.kind = "tool"
      /\ ret.name = "binelek_validate_yaml"
      /\ ret.invoked
      /\ ret.gw.state = "value" )
    => LET body == ret.http.data
       IN  /\ body.valid = "true"
              => /\ Head(TextOf(ret)) = "\\u2713 YAML is valid\n"
                 /\ Contains(Tail(TextOf(ret)), Stringify(body))
           /\ (body.valid = "false" /\ body.errors # "none")
              => /\ Head(TextOf(ret)) = "\\u2717 YAML validation failed:\n"
                 /\ Contains(Tail(TextOf(ret)), "[\"" \o body.errors \o "\"]")
                 /\ ~Contains(TextOf(ret), Stringify(body))

C13_Witness ==
    /\ ret.kind = "tool"
    /\ ret.name = "binelek_validate_yaml"
    /\ ret.gw.state = "value"
    /\ ret.http.data.valid = "false"
    /\ ret.http.data.errors = "bad"
    /\ Join(TextOf(ret)) = "\\u2717 YAML validation failed:\n[\"bad\"]"

\* C14: when two tool calls are in flight at the same time and their
\* responses arrive in any order, a suspended call's name, arguments and
\* request are left alone by every step of the other call, and the result it
\* finishes with is the one its handler builds from its own name, its own
\* arguments and the outcome of its own exchange; a finished call's text
\* never names the identifier of the call still suspended.
C14_ConcurrentCallsDoNotMix ==
    /\ [](\A c \in Slots :
            ( /\ calls[c] # Idle
              /\ ret.kind = "tool"
              /\ ret.invoked
              /\ calls[c].key # ret.key )
            => ~Contains(TextOf(ret), calls[c].key))
    /\ [][\A c \in Slots :
            calls[c] # Idle
            => \/ calls'[c] = calls[c]
               \/ /\ calls'[c] = Idle
                  /\ \A d \in Slots \ {c} : calls'[d] = calls[d]
                  /\ ret'.kind = "tool"
                  /\ ret'.group = calls[c].group
                  /\ ret'.name = calls[c].name
                  /\ ret'.args = calls[c].args
                  /\ ret'.req = calls[c].req
                  /\ ret'.http \in HttpOutcomes
                  /\ ret'.gw = OpSettle(calls[c].op, calls[c].key, ret'.http)
                  /\ ret'.out = HandlerEnd(calls[c].group, calls[c].name, calls[c].args,
                                           ret'.gw)]_vars

C14_Witness ==
    /\ ret.kind = "tool"
    /\ ret.invoked
    /\ ret.name = "binelek_get_entity"
    /\ ret.key = "e2"
    /\ ret.http.type = "response"
    /\ ret.http.status = 404
    /\ calls["c1"] # Idle
    /\ calls["c1"].name = "binelek_delete_entity"
    /\ calls["c1"].key = "e1"
    /\ calls["c2"] = Idle
    /\ Contains(TextOf(ret), "e2")

\* A tool result for a name its group declares.
KnownToolRet(r) == r.kind = "tool" /\ r.name \in Range(ToolsOf(r.group))

\* C15 as stated: every invocation of a known tool calls exactly one gateway
\* client method exactly once and sends at most one HTTP request. A known
\* tool that reads its arguments and is called without an arguments mapping
\* calls no gateway method at all.
C15_ExactlyOneGatewayCall ==
    KnownToolRet(ret) => (ret.opCalls = 1 /\ ret.sends <= 1)

\* C15, what holds of it: every invocation of a known tool calls at most one
\* gateway client method, and exactly one unless the tool reads its arguments
\* and the arguments mapping is absent; that method sends at most one HTTP
\* request; the handler answers only once the method has returned or
\* failed, in the very step in which its exchange ended; and a suspended
\* call either stays as it is or finishes at the first outcome of its one
\* request, failed or not: nothing is sent again.
C15_AtMostOneCallNoRetry ==
    /\ [](KnownToolRet(ret)
          => /\ ret.opCalls = IF FirstField(ret.name) # "" /\ ~ret.args.present
                              THEN 0 ELSE 1
             /\ ret.invoked <=> ret.opCalls = 1
             /\ ret.sends <= ret.opCalls
             /\ ret.sends = 1 <=> ret.req # NoReq
             /\ ret.invoked => ret.gw.state \in {"value", "failure"}
             /\ ret.sends = 1 => ret.http.type \in {"response", "noresponse"})
    /\ [](\A c \in Slots :
            (calls[c] # Idle /\ calls[c].kind = "tool")
            => (calls[c].opCalls = 1 /\ calls[c].sends = 1))
    /\ [][\A c \in Slots :
            (calls[c] # Idle /\ calls[c].kind = "tool")
            => \/ calls'[c] = calls[c]
               \/ /\ calls'[c] = Idle
                  /\ KnownToolRet(ret')
                  /\ ret'.req = calls[c].req
                  /\ ret'.sends = 1]_vars

C15_Witness ==
    /\ KnownToolRet(ret)
    /\ ret.name = "binelek_trigger_pipeline"
    /\ ret.args.present
    /\ ret.http.type = "noresponse"
    /\ ret.gw.state = "failure"
    /\ ret.opCalls = 1
    /\ ret.sends = 1

\* The probe has ended in a failure and main() is about to take it.
ProbeFailed == pc = "probed" /\ ret.kind = "op" /\ ret.gw.state = "failure"

ProbeSucceeded == pc = "probed" /\ ret.kind = "op" /\ ret.gw.state = "value"

\* Startup is complete: five groups registered, both handlers installed,
\* the transport connected.
StartupComplete ==
    /\ pc = "running"
    /\ registered = 5
    /\ callHandler # "none"
    /\ listHandler

\* C16: at startup the health probe is attempted once; whether it succeeds
\* or fails, startup goes on to register all five tool groups, install the
\* list-tools handler and connect the transport. A probe failure is logged
\* (its message, then the notice that the server starts anyway) and never
\* ends the process or leaves the server without its handlers.
C16_ProbeNeverStopsStartup ==
    /\ [](probes <= 1)
    /\ [](pc \notin {"start", "probe"} => probes = 1)
    /\ [](pc \in {"start", "probe", "probing", "probed", "register", "connect", "running"})
    /\ [](pc = "running" => StartupComplete)
    /\ [][ProbeFailed
            => /\ pc' = "register"
               /\ Len(stderr') = 2
               /\ stderr'[1] = << "\\u2717 Failed to connect to API Gateway: " >>
                                \o ret.gw.message
               /\ stderr'[2] = << "Server will start but tools may not work correctly" >>]_vars
    /\ [][ProbeSucceeded => pc' = "register"]_vars
    /\ ProbeFailed ~> StartupComplete
    /\ ProbeSucceeded ~> StartupComplete

C16_Witness ==
    /\ pc = "register"
    /\ registered = 0
    /\ probes = 1
    /\ Len(stderr) = 2
    /\ stderr[1] = << "\\u2717 Failed to connect to API Gateway: ",
                      "No response from API Gateway. Is it running?" >>

\* A gateway client operation has just failed (called directly or by a tool).
OpFailed(r) == OpRan(r) /\ r.gw.state = "failure"

\* getEntity's own failure: the exchange ended with a 404 response.
NotFoundFailure(r) ==
    /\ r.op = "getEntity"
    /\ r.http.type = "response"
    /\ r.http.status = 404

\* C17 as stated: every failure a gateway client operation raises, the
\* entity not-found failure on a 404 among them, has been written to the
\* diagnostic log by the time it is raised. The interceptor never sees the
\* 404: axios resolves it.
C17_EveryFailureLogged ==
    OpFailed(ret) => stderr # << >>

\* C17 (amended): every failure that comes from a rejected exchange has been
\* written to the diagnostic log, as one line, by the time the operation
\* raises it: "API Error: <status> - <body>" for an UpstreamError,
\* "API Error: No response received" for an UnreachableError, "API Error: "
\* and the original message for a request that could not be sent. getEntity's
\* not-found failure on a 404 is raised without any line being logged, and
\* an operation that returns logs nothing.
C17_RejectedExchangeLogged ==
    OpRan(ret)
    => IF ret.gw.state = "value" \/ NotFoundFailure(ret)
       THEN stderr = << >>
       ELSE /\ Len(stderr) = 1
            /\ Head(stderr[1]) = "API Error: "
               \/ stderr[1] = << "API Error: No response received" >>
            /\ ret.gw.kind = "UpstreamError"
               => /\ Contains(stderr[1], ToString(ret.http.status))
                  /\ Contains(stderr[1], Stringify(ret.http.data))
            /\ ret.gw.kind = "UnreachableError"
               => stderr[1] = << "API Error: No response received" >>
            /\ ret.gw.kind = "RequestError"
               => /\ ret.http.type = "setup"
                  /\ stderr[1] = << "API Error: " >> \o Tail(ret.gw.message)

C17_Witness ==
    /\ ret.kind = "op"
    /\ ret.op = "getEntity"
    /\ ret.gw.state = "failure"
    /\ ret.gw.kind = "UpstreamError"
    /\ ret.http.status = 503
    /\ Len(stderr) = 1
    /\ Contains(stderr[1], "503")

\* How many entries of a list belong to a group's descriptors.
CountIn(list, group) == Cardinality({i \in DOMAIN list : list[i] \in Range(group)})

\* C18: after registration, list-tools returns the descriptors of all five
\* groups, 22 in all (7 ontology, 3 search, 3 AI, 4 pipeline, 5 admin), each
\* exactly once and no two with the same name; and once the server runs the
\* list never changes, so every later list-tools call returns the same list.
C18_ListToolsIsTheUnionOnce ==
    /\ [](ret.kind = "list"
          => /\ Len(ret.tools) = 22
             /\ Cardinality(Range(ret.tools)) = 22
             /\ Range(ret.tools) = ToolNames
             /\ CountIn(ret.tools, OntologyTools) = 7
             /\ CountIn(ret.tools, SearchTools) = 3
             /\ CountIn(ret.tools, AITools) = 3
             /\ CountIn(ret.tools, PipelineTools) = 4
             /\ CountIn(ret.tools, AdminTools) = 5
             /\ ret.tools = allTools)
    /\ [][pc = "running" => allTools' = allTools]_vars

C18_Witness ==
    /\ pc = "running"
    /\ ret.kind = "list"
    /\ Len(ret.tools) = 22
    /\ ret.tools[1] = "binelek_get_entity"
    /\ ret.tools[22] = "binelek_generate_code"
    /\ \E c \in Slots : calls[c] # Idle

\* A tool call whose gateway method returned a value.
GatewayReturned(r) == r.kind = "tool" /\ r.invoked /\ r.gw.state = "value"

\* The line the claim expects before the serialized result, "" for none.
ExpectedLine(name) ==
    CASE name = "binelek_create_entity"       -> "Entity created successfully:\n"
      [] name = "binelek_update_entity"       -> "Entity updated successfully:\n"
      [] name = "binelek_create_relationship" -> "Relationship created successfully:\n"
      [] name = "binelek_trigger_pipeline"    -> "Pipeline triggered successfully:\n"
      [] name = "binelek_generate_code"       -> "Code generated successfully:\n"
      [] OTHER -> ""

\* The text the claim expects: for chat a string result as it is, otherwise
\* the line (if any) and the result serialized.
ExpectedText(r) ==
    IF r.name = "binelek_ai_chat" /\ r.gw.value.type = "string"
    THEN r.gw.value.raw
    ELSE ExpectedLine(r.name) \o Stringify(r.gw.value)

\* C19 as stated: on success every tool returns exactly one text block
\* holding the gateway result serialized (after a confirmation line for the
\* five creating/triggering tools, unserialized for a chat string), flagged
\* isError = false. No success result carries an isError field, the delete
\* tool serializes nothing and the validation tool has a format of its own.
C19_SuccessIsSerializedResultFlaggedFalse ==
    GatewayReturned(ret)
    => /\ ret.out.type = "return"
       /\ Len(ret.out.result.content) = 1
       /\ ret.out.result.content[1].type = "text"
       /\ Join(TextOf(ret)) = ExpectedText(ret)
       /\ "isError" \in DOMAIN ret.out.result
       /\ ret.out.result.isError = FALSE

\* C19 (amended): when its gateway method returns, every tool but
\* binelek_delete_entity and binelek_validate_yaml returns exactly one text
\* block holding the result serialized, after a confirmation line for entity
\* create, entity update, relationship create, pipeline trigger and code
\* generation, and for chat the result itself when it is a string; the
\* delete tool returns its confirmation only and the validation tool a
\* marker line with the body or its errors; no such result has an isError
\* field. (A null body makes the validation tool answer with an error.)
C19_SuccessIsSerializedResultUnflagged ==
    GatewayReturned(ret)
    => /\ ret.out.type = "return"
       /\ Len(ret.out.result.content) = 1
       /\ ret.out.result.content[1].type = "text"
       /\ IF ret.name = "binelek_validate_yaml"
          THEN IF ret.gw.value.type = "null"
               THEN /\ "isError" \in DOMAIN ret.out.result
                    /\ Head(TextOf(ret)) = "Error: "
               ELSE /\ "isError" \notin DOMAIN ret.out.result
                    /\ Head(TextOf(ret)) \in {"\\u2713 YAML is valid\n",
                                              "\\u2717 YAML validation failed:\n"}
          ELSE /\ "isError" \notin DOMAIN ret.out.result
               /\ IF ret.name = "binelek_delete_entity"
                  THEN Join(TextOf(ret))
                         = "Entity " \o Str(ret.key) \o " deleted successfully"
                  ELSE Join(TextOf(ret)) = ExpectedText(ret)

C19_Witness ==
    /\ GatewayReturned(ret)
    /\ ret.name = "binelek_create_entity"
    /\ ret.gw.value.type = "object"
    /\ "isError" \notin DOMAIN ret.out.result
    /\ Join(TextOf(ret)) = "Entity created successfully:\n{\"id\": \"x\"}"

\* A call to a known tool that takes a required field, without that field:
\* the arguments mapping lacks it, or there is no mapping at all.
LacksRequiredField(r) ==
    /\ KnownToolRet(r)
    /\ FirstField(r.name) # ""
    /\ (~r.args.present \/ r.args.key = Undefined)

\* The missing field went to the gateway method as undefined: the method was
\* called once with undefined, and a request that was sent has "undefined"
\* in its path or no such field in its body; the result is the gateway's.
FlowsThroughAsUndefined(r) ==
    /\ r.invoked
    /\ r.opCalls = 1
    /\ r.op = OpOf(r.name)
    /\ r.key = Undefined
    /\ r.req # NoReq
       => IF BodyField(r.op) = ""
          THEN Contains(r.req.path, "undefined")
          ELSE BodyField(r.op) \notin DOMAIN r.req.body
    /\ r.gw.state \in {"value", "failure"}
    /\ r.gw.state = "failure"
       => /\ "isError" \in DOMAIN r.out.result
          /\ TextOf(r) = << "Error: " >> \o r.gw.message
    /\ (r.gw.state = "value" /\ ~CallFailed(r))
       => "isError" \notin DOMAIN r.out.result

\* C20 as stated: a call to a known tool whose arguments lack a required
\* field, a call with no arguments mapping included, still invokes the tool's
\* gateway method once with the field undefined, and the outcome is the
\* gateway call's. With no mapping at all, reading the field throws before
\* the gateway method is called.
C20_MissingFieldFlowsThrough ==
    LacksRequiredField(ret) => FlowsThroughAsUndefined(ret)

\* C20, what holds of it: when the arguments mapping is present but lacks the
\* required field, the handler validates nothing: it invokes the tool's
\* gateway method once with the field undefined and the outcome is the
\* gateway call's. When there is no arguments mapping, reading the field
\* throws a TypeError inside the try block: no gateway method is called and
\* the result is "Error: " and the TypeError's message, which names the
\* field, with isError true.
C20_MissingFieldFlowsThroughIfMapping ==
    LacksRequiredField(ret)
    => IF ret.args.present
       THEN FlowsThroughAsUndefined(ret)
       ELSE /\ ~ret.invoked
            /\ ret.opCalls = 0
            /\ ret.req = NoReq
            /\ ret.out.type = "return"
            /\ "isError" \in DOMAIN ret.out.result
            /\ ret.out.result.isError = TRUE
            /\ Head(TextOf(ret)) = "Error: "
            /\ Contains(TextOf(ret), FirstField(ret.name))

C20_Witness ==
    /\ KnownToolRet(ret)
    /\ ret.name = "binelek_get_entity"
    /\ ret.args.present
    /\ ret.args.key = Undefined
    /\ ret.invoked
    /\ ret.req # NoReq
    /\ Join(ret.req.path) = "/api/ontology/entities/undefined"
    /\ ret.http.type = "response"
    /\ ret.http.status = 404

\* C21: every tool call eventually returns a result. Every request goes out
\* with a timeout above zero (the config's, or the default when it has none),
\* so a call suspended on its exchange resumes when the gateway responds or
\* when the timeout fires, whatever other calls do meanwhile; it leaves its
\* slot only with a returned result; and when no response came the result is
\* the UnreachableError's message after "Error: ", with isError true.
C21_NoCallWaitsForever ==
    /\ [](\A r \in SentRequests :
            /\ r.timeout > 0
            /\ r.timeout = IF config.timeout = 0 THEN DefaultTimeout ELSE config.timeout)
    /\ []((ret.kind = "tool" /\ ret.invoked /\ ret.http.type = "noresponse")
          => /\ ret.gw.state = "failure"
             /\ ret.gw.kind = "UnreachableError"
             /\ ret.out.type = "return"
             /\ "isError" \in DOMAIN ret.out.result
             /\ ret.out.result.isError = TRUE
             /\ TextOf(ret) = << "Error: ", "No response from API Gateway. Is it running?" >>)
    /\ [][\A c \in Slots :
            (calls[c] # Idle /\ calls'[c] = Idle)
            => (ret'.kind = "tool" /\ ret'.req = calls[c].req /\ ret'.out.type = "return")]_vars
    /\ \A c \in Slots : (calls[c] # Idle) ~> (calls[c] = Idle)

C21_Witness ==
    /\ config # NoConfig
    /\ config.timeout = 0
    /\ ret.kind = "tool"
    /\ ret.name = "binelek_semantic_search"
    /\ ret.http.type = "noresponse"
    /\ ret.req.timeout = DefaultTimeout
    /\ ret.gw.kind = "UnreachableError"
    /\ calls["c1"] # Idle
    /\ calls["c2"] = Idle

\* A tool call whose gateway answered with a status in [400, 500).
ClientErrorRet(r) ==
    /\ r.kind = "tool"
    /\ r.invoked
    /\ r.http.type = "response"
    /\ r.http.status >= 400
    /\ r.http.status < 500

\* The call ended exactly as it would have, had the gateway answered 200
\* with the same body.
SameAs2xx(r) ==
    /\ r.gw = Value(r.http.data)
    /\ r.out = HandlerEnd(r.group, r.name, r.args,
                          OpSettle(r.op, r.key,
                                   [type |-> "response", status |-> 200,
                                    data |-> r.http.data]))

\* C22 as stated: for every tool other than binelek_get_entity a response
\* with a status in [400, 500) is reported as a success: the result is built
\* exactly as for a 2xx response with the same body and is not flagged
\* isError = true. binelek_validate_yaml answers a null body with an error,
\* at this status as at any other.
C22_ClientErrorReportedAsSuccess ==
    (ClientErrorRet(ret) /\ ret.name # "binelek_get_entity")
    => /\ SameAs2xx(ret)
       /\ "isError" \notin DOMAIN ret.out.result

\* C22 (amended): for every tool other than binelek_get_entity a response
\* with a status in [400, 500) ends the call exactly as a 2xx response with
\* the same body does: the body is the gateway method's value and the result
\* has no isError flag, unless the tool is binelek_validate_yaml and the
\* body is null (an error at any status); binelek_delete_entity answers
\* "Entity <id> deleted successfully". binelek_get_entity alone looks at the
\* status: 404 gives an error result, any other status below 500 a success.
C22_ClientErrorEndsAs2xx ==
    ClientErrorRet(ret)
    => IF ret.name = "binelek_get_entity"
       THEN IF ret.http.status = 404
            THEN /\ ret.gw.state = "failure"
                 /\ "isError" \in DOMAIN ret.out.result
                 /\ ret.out.result.isError = TRUE
            ELSE /\ SameAs2xx(ret)
                 /\ "isError" \notin DOMAIN ret.out.result
       ELSE /\ SameAs2xx(ret)
            /\ "isError" \in DOMAIN ret.out.result
               <=> (ret.name = "binelek_validate_yaml" /\ ret.http.data.type = "null")
            /\ ret.name = "binelek_delete_entity"
               => Join(TextOf(ret)) = "Entity " \o Str(ret.key) \o " deleted successfully"

C22_Witness ==
    /\ ClientErrorRet(ret)
    /\ ret.name = "binelek_delete_entity"
    /\ ret.key = "e1"
    /\ ret.http.status = 404
    /\ "isError" \notin DOMAIN ret.out.result
    /\ Join(TextOf(ret)) = "Entity e1 deleted successfully"

====
